---- MODULE Spec2Model ----
(***************************************************************************)
(* A model of the aioracle prediction engine (aioracle/backend.py), of the  *)
(* combined fetch and the aggregation it uses (aioracle/scraper.py) and of *)
(* the worker thread that runs it for the dashboard (aioracle/workers.py,  *)
(* aioracle/ui/dashboard.py).                                              *)
(*                                                                         *)
(* Spec      : one PredictionEngine shared by concurrent callers of        *)
(*             fetch_data, generate_prediction, get_detailed_analysis and  *)
(*             clear_cache, with a wall clock and a fetch function whose   *)
(*             outcome is chosen by the environment.                       *)
(* SpecLock  : the callers of fetch_data and clear_cache with the fairness *)
(*             of their threads and of the lock.                           *)
(* SpecPipe  : the body of generate_prediction after the fetch, run line   *)
(*             group by line group on every bounded input sequence.        *)
(* SpecFetch : fetch_agi_forecasts, one source adapter after the other,    *)
(*             then the deduplication and the aggregate.                   *)
(* SpecWorker: one dashboard, its AnalysisWorker and the queued signals.   *)
(* SpecDate  : _year_to_date_string on pairs of years.                     *)
(*                                                                         *)
(* Text is a tuple of one-character strings, so that lower-casing,         *)
(* slicing and substring search are computed.  A year is an exact          *)
(* fraction <<n, d>> with d > 0, standing for the float n/d; the result of   *)
(* every float operation is rounded to MantDig significant bits, ties to   *)
(* even, as IEEE 754 arithmetic rounds it to 53.                           *)
(***************************************************************************)
EXTENDS Integers, Sequences, FiniteSets, TLC

\* ---------------------------------------------------------------- bounds
TTL == 1
MaxLen == 3
MaxMinPoints == 1
MaxAdapterPoints == 2
MaxRuns == 1
\* bits in the significand of a float (CPython: 53)
MantDig == 15

\* the clock runs until a cache entry stored at time 0 has expired
MaxTime == TTL + 1

\* the concurrent callers of one engine
Threads == {1, 2}

\* ------------------------------------------------------------------ text
UpperCase == <<"A","B","C","D","E","F","G","H","I","J","K","L","M","N","O","P","Q","R","S","T","U","V","W","X","Y","Z">>
LowerCase == <<"a","b","c","d","e","f","g","h","i","j","k","l","m","n","o","p","q","r","s","t","u","v","w","x","y","z">>

\* str.lower() on one character
LowerChar(c) ==
    IF \E i \in 1..Len(UpperCase) : UpperCase[i] = c
    THEN LowerCase[CHOOSE i \in 1..Len(UpperCase) : UpperCase[i] = c]
    ELSE c

\* str.lower()
Lower(s) == [i \in 1..Len(s) |-> LowerChar(s[i])]

\* the Python test  kw in s  on strings
Contains(kw, s) ==
    \E i \in 1..(Len(s) - Len(kw) + 1) : SubSeq(s, i, i + Len(kw) - 1) = kw

ASI_KEYWORDS == {
    <<"a","s","i">>,
    <<"s","u","p","e","r","i","n","t","e","l","l","i","g","e","n","c","e">>,
    <<"s","u","p","e","r","i","n","t","e","l","l","i","g","e","n","t">>,
    <<"t","r","a","n","s","f","o","r","m","a","t","i","v","e"," ","a","i">>,
    <<"t","r","a","n","s","f","o","r","m","a","t","i","v","e"," ","a","r","t","i","f","i","c","i","a","l">>
}

SINGULARITY_KEYWORDS == {
    <<"s","i","n","g","u","l","a","r","i","t","y">>,
    <<"f","u","l","l"," ","a","u","t","o","m","a","t","i","o","n">>,
    <<"t","e","c","h","n","o","l","o","g","i","c","a","l"," ","s","i","n","g","u","l","a","r","i","t","y">>,
    <<"i","n","t","e","l","l","i","g","e","n","c","e"," ","e","x","p","l","o","s","i","o","n">>,
    <<"r","e","c","u","r","s","i","v","e"," ","s","e","l","f","-","i","m","p","r","o","v","e","m","e","n","t">>
}

\* ------------------------------------------------------ exact fractions
Abs(x) == IF x < 0 THEN -x ELSE x

RECURSIVE Gcd(_, _)
Gcd(a, b) == IF b = 0 THEN a ELSE Gcd(b, a % b)

Frac(n, d) ==
    LET g == Gcd(Abs(n), d) IN <<n \div g, d \div g>>

FromInt(k) == <<k, 1>>
FLe(a, b) == a[1] * b[2] <= b[1] * a[2]
FLt(a, b) == a[1] * b[2] < b[1] * a[2]
FAdd(a, b) == Frac(a[1] * b[2] + b[1] * a[2], a[2] * b[2])
FSub(a, b) == Frac(a[1] * b[2] - b[1] * a[2], a[2] * b[2])
FMulInt(a, k) == Frac(a[1] * k, a[2])
FDiv(a, b) == Frac(a[1] * b[2], a[2] * b[1])

\* 2^e as a fraction, e of either sign
Scale(e) == IF e >= 0 THEN <<2^e, 1>> ELSE <<1, 2^(-e)>>

\* the e with 2^e <= a < 2^(e+1), for a > 0, searched from a first guess
RECURSIVE ExponentFrom(_, _)
ExponentFrom(a, e) ==
    IF FLt(a, Scale(e)) THEN ExponentFrom(a, e - 1)
    ELSE IF FLe(Scale(e + 1), a) THEN ExponentFrom(a, e + 1)
    ELSE e

\* the integer nearest to q >= 0, the even one of two equally near
RoundHalfEven(q) ==
    LET f == q[1] \div q[2]
        r == q[1] % q[2]
    IN  IF 2 * r < q[2] THEN f
        ELSE IF 2 * r > q[2] THEN f + 1
        ELSE IF f % 2 = 0 THEN f ELSE f + 1

\* the float nearest to the real number x
Fl(x) ==
    IF x[1] = 0 THEN x
    ELSE LET a == <<Abs(x[1]), x[2]>>
             ulp == Scale(ExponentFrom(a, 10) - MantDig + 1)
             m == RoundHalfEven(FDiv(a, ulp))
             sign == IF x[1] < 0 THEN -1 ELSE 1
         IN  Frac(sign * m * ulp[1], ulp[2])

\* int(x) on a float: truncation towards zero
IntTrunc(a) ==
    IF a[1] >= 0 THEN a[1] \div a[2] ELSE -((-a[1]) \div a[2])

\* n ** 0.5, exact on the perfect squares the inputs are drawn from
Sqrt(n) == CHOOSE r \in 0..n : r * r = n

Max(a, b) == IF a >= b THEN a ELSE b
Min(a, b) == IF a <= b THEN a ELSE b

\* ------------------------------------------------------------ test data
QAgi == <<"W","h","e","n"," ","A","G","I">>
QAsi == <<"F","i","r","s","t"," ","A","S","I">>
QSing == <<"S","i","n","g","u","l","a","r","i","t","y">>
\* a question with an ASI keyword and a singularity keyword
QBoth == <<"A","S","I"," ","S","i","n","g","u","l","a","r","i","t","y">>

Y2024 == <<2024, 1>>
Y2025 == <<2025, 1>>
Y2030h == <<4061, 2>>
\* 2045.0625: adding 5 crosses 2048, where the spacing of the floats doubles
Y2045s == <<32721, 16>>
Y2200 == <<2200, 1>>
Y2201 == <<2201, 1>>

\* ForecastPoint (url is never read by the engine)
Point(src, q, y, nf) ==
    [source |-> src, question |-> q, median_year |-> y, num_forecasters |-> nf]

\* (median_year, num_forecasters) pairs: both sides of every validation
\* boundary, a fractional year, and forecaster counts with exact roots
YearForecasters ==
    { <<Y2024, 4>>, <<Y2025, 0>>, <<Y2025, -1>>, <<Y2030h, 1>>,
      <<Y2200, 4>>, <<Y2201, 0>> }

PointUniverse ==
    { Point("Metaculus", QAgi, yf[1], yf[2]) : yf \in YearForecasters }
    \cup { Point("Metaculus", QAsi, yf[1], yf[2]) : yf \in { <<Y2025, 0>>, <<Y2200, 4>> } }
    \cup { Point("Metaculus", QSing, Y2030h, 1) }
    \cup { Point("Metaculus", QBoth, Y2200, 4) }
    \cup { Point("Manifold", QAgi, Y2045s, 1), Point("Polymarket", QAgi, Y2025, 0) }

RECURSIVE SeqsUpTo(_, _)
SeqsUpTo(S, n) ==
    IF n = 0 THEN { <<>> }
    ELSE LET shorter == SeqsUpTo(S, n - 1)
         IN  shorter \cup { Append(s, x) : s \in { t \in shorter : Len(t) = n - 1 }, x \in S }

\* ------------------------------------------------------------ validation
MIN_VALID_YEAR == 2025
MAX_VALID_YEAR == 2200
MIN_FORECASTERS == 0

\* a variant with an exclusive lower bound on the year
ValidatePointExclusive(point) ==
    IF ~(FLt(FromInt(MIN_VALID_YEAR), point.median_year)
         /\ FLe(point.median_year, FromInt(MAX_VALID_YEAR)))
    THEN FALSE
    ELSE IF point.num_forecasters < MIN_FORECASTERS
    THEN FALSE
    ELSE TRUE

\* PredictionEngine._validate_point
ValidatePoint(point) ==
    IF ~(FLe(FromInt(MIN_VALID_YEAR), point.median_year)
         /\ FLe(point.median_year, FromInt(MAX_VALID_YEAR)))
    THEN FALSE
    ELSE IF point.num_forecasters < MIN_FORECASTERS
    THEN FALSE
    ELSE TRUE

\* a variant that also raises when the count equals the minimum
ValidateDataOffByOne(points, min_points) ==
    LET valid_points == SelectSeq(points, ValidatePoint)
    IN  IF Len(valid_points) <= min_points
        THEN [error |-> "DataValidationError", got |-> Len(valid_points), need |-> min_points]
        ELSE [error |-> "none", points |-> valid_points]

\* PredictionEngine._validate_data: the filtered list, or the error raised
ValidateData(points, min_points) ==
    LET valid_points == SelectSeq(points, ValidatePoint)
    IN  IF Len(valid_points) < min_points
        THEN [error |-> "DataValidationError", got |-> Len(valid_points), need |-> min_points]
        ELSE [error |-> "none", points |-> valid_points]

\* -------------------------------------------------------- classification
IsSingularity(point) ==
    \E kw \in SINGULARITY_KEYWORDS : Contains(kw, Lower(point.question))

IsAsi(point) ==
    ~IsSingularity(point) /\ \E kw \in ASI_KEYWORDS : Contains(kw, Lower(point.question))

IsAgi(point) == ~IsSingularity(point) /\ ~IsAsi(point)

\* a variant that tests the ASI keywords before the singularity keywords
ClassifyAsiFirst(points) ==
    LET asi(point) == \E kw \in ASI_KEYWORDS : Contains(kw, Lower(point.question))
        sing(point) == ~asi(point) /\ IsSingularity(point)
        agi(point) == ~asi(point) /\ ~sing(point)
    IN  [agi |-> SelectSeq(points, agi),
         asi |-> SelectSeq(points, asi),
         singularity |-> SelectSeq(points, sing)]

\* ForecastClassifier.classify
Classify(points) ==
    [agi |-> SelectSeq(points, IsAgi),
     asi |-> SelectSeq(points, IsAsi),
     singularity |-> SelectSeq(points, IsSingularity)]

\* a variant in which the singularity bucket falls back to the ASI bucket
ApplyFallbacksChained(classified, points) ==
    LET agi_points == IF classified.agi = <<>> THEN points ELSE classified.agi
        asi_points == IF classified.asi = <<>> THEN agi_points ELSE classified.asi
        sing_points == IF classified.singularity = <<>> THEN asi_points ELSE classified.singularity
    IN  [agi |-> agi_points, asi |-> asi_points, singularity |-> sing_points]

\* generate_prediction, the fallbacks for empty categories
ApplyFallbacks(classified, points) ==
    LET agi_points == IF classified.agi = <<>> THEN points ELSE classified.agi
        asi_points == IF classified.asi = <<>> THEN agi_points ELSE classified.asi
        sing_points == IF classified.singularity = <<>> THEN agi_points ELSE classified.singularity
    IN  [agi |-> agi_points, asi |-> asi_points, singularity |-> sing_points]

\* ------------------------------------------------------------ aggregation
\* datetime.now().year
CurrentYear == 2026

Front(s) == SubSeq(s, 1, Len(s) - 1)

\* weighted_sum after the loop: weighted_sum += p.median_year * w, in list order
RECURSIVE WeightedSum(_)
WeightedSum(points) ==
    IF points = <<>> THEN FromInt(0)
    ELSE LET p == points[Len(points)]
             w == Sqrt(Max(1, p.num_forecasters))
         IN  Fl(FAdd(WeightedSum(Front(points)), Fl(FMulInt(p.median_year, w))))

\* total_weight after the loop: total_weight += w (small integers, exact)
RECURSIVE TotalWeight(_)
TotalWeight(points) ==
    IF points = <<>> THEN 0
    ELSE Sqrt(Max(1, Head(points).num_forecasters)) + TotalWeight(Tail(points))

\* scraper.aggregate_forecasts
AggregateForecasts(points) ==
    IF points = <<>>
    THEN FromInt(CurrentYear + 25)
    ELSE IF TotalWeight(points) # 0
         THEN Fl(FDiv(WeightedSum(points), FromInt(TotalWeight(points))))
         ELSE points[1].median_year

Aggregates(buckets) ==
    [agi |-> AggregateForecasts(buckets.agi),
     asi |-> AggregateForecasts(buckets.asi),
     singularity |-> AggregateForecasts(buckets.singularity)]

\* a variant that compares the singularity year with the unadjusted ASI year
EnforceOrderStale(years) ==
    LET asi_year == IF FLe(years.asi, years.agi)
                    THEN Fl(FAdd(years.agi, FromInt(5))) ELSE years.asi
        sing_year == IF FLe(years.singularity, years.asi)
                     THEN Fl(FAdd(asi_year, FromInt(15))) ELSE years.singularity
    IN  [agi |-> years.agi, asi |-> asi_year, singularity |-> sing_year]

\* generate_prediction, "Ensure logical ordering: AGI <= ASI <= Singularity"
EnforceOrder(years) ==
    LET asi_year == IF FLe(years.asi, years.agi)
                    THEN Fl(FAdd(years.agi, FromInt(5))) ELSE years.asi
        sing_year == IF FLe(years.singularity, asi_year)
                     THEN Fl(FAdd(asi_year, FromInt(15))) ELSE years.singularity
    IN  [agi |-> years.agi, asi |-> asi_year, singularity |-> sing_year]

\* ------------------------------------------------------ labels and dates
\* TakeoffScenario.from_year_gap
FromYearGap(gap) ==
    IF FLt(gap, FromInt(5)) THEN "RAPID"
    ELSE IF FLt(gap, FromInt(15)) THEN "MODERATE"
    ELSE "SLOW"

Sources(points) == { points[i].source : i \in 1..Len(points) }

\* a variant that calls any two sources a crowd of experts
DetermineConsensusTypeAnyTwo(points) ==
    LET sources == Sources(points)
    IN  IF Cardinality(sources) = 0 THEN "SINGLE_SOURCE"
        ELSE IF Cardinality(sources) = 1
        THEN IF "Metaculus" \in sources THEN "PREDICTION_MARKET" ELSE "EXPERT_SURVEY"
        ELSE "CROWD_EXPERT"

\* PredictionEngine._determine_consensus_type
DetermineConsensusType(points) ==
    LET sources == Sources(points)
    IN  IF Cardinality(sources) = 0 THEN "SINGLE_SOURCE"
        ELSE IF Cardinality(sources) = 1
        THEN IF "Metaculus" \in sources THEN "PREDICTION_MARKET" ELSE "EXPERT_SURVEY"
        ELSE IF "Metaculus" \in sources THEN "CROWD_EXPERT"
        ELSE "EXPERT_SURVEY"

\* a variant without the + 1 that makes months start at 1
YearToDateFromZero(year) ==
    LET yr == IntTrunc(year)
        month == IntTrunc(Fl(FMulInt(Fl(FSub(year, FromInt(yr))), 12)))
    IN  <<yr, Max(1, Min(12, month)), 1>>

\* PredictionEngine._year_to_date_string: <<year, month, day>> of "YYYY-MM-01"
YearToDate(year) ==
    LET yr == IntTrunc(year)
        month == IntTrunc(Fl(FMulInt(Fl(FSub(year, FromInt(yr))), 12))) + 1
    IN  <<yr, Max(1, Min(12, month)), 1>>

DigitChars == <<"0", "1", "2", "3", "4", "5", "6", "7", "8", "9">>

\* str(n) of an integer n >= 0
RECURSIVE Decimal(_)
Decimal(n) ==
    IF n < 10 THEN <<DigitChars[n + 1]>>
    ELSE Decimal(n \div 10) \o <<DigitChars[(n % 10) + 1]>>

\* the format specification 02d, for n >= 0
TwoDigits(n) == IF n < 10 THEN <<"0">> \o Decimal(n) ELSE Decimal(n)

\* f"{yr}-{month:02d}-01"
DateString(date) ==
    Decimal(date[1]) \o <<"-">> \o TwoDigits(date[2]) \o <<"-", "0", "1">>

\* PredictionEngine._year_to_date_string, the string returned
YearToDateString(year) == DateString(YearToDate(year))

\* calendar order of two dates
DateLe(a, b) ==
    \/ a[1] < b[1]
    \/ a[1] = b[1] /\ a[2] < b[2]
    \/ a[1] = b[1] /\ a[2] = b[2] /\ a[3] <= b[3]

\* generate_prediction, the Prediction built from the buckets and the years
\* (timestamp, agi_prob and singularity_prob are not modelled)
BuildPrediction(buckets, years) ==
    [agi_date |-> YearToDate(years.agi),
     agi_type |-> DetermineConsensusType(buckets.agi),
     asi_date |-> YearToDate(years.asi),
     asi_context |-> FromYearGap(Fl(FSub(years.asi, years.agi))),
     singularity_date |-> YearToDate(years.singularity)]

\* generate_prediction after fetch_data has returned raw_points
PredictionFrom(raw_points, min_points) ==
    LET validated == ValidateData(raw_points, min_points)
    IN  IF validated.error # "none" THEN validated
        ELSE LET buckets == ApplyFallbacks(Classify(validated.points), validated.points)
                 years == EnforceOrder(Aggregates(buckets))
             IN  [error |-> "none", prediction |-> BuildPrediction(buckets, years)]

\* ConfidenceMetrics of a bucket (the counts; the float statistics are not modelled)
CalculateConfidenceMetrics(points) ==
    [sample_size |-> Len(points), source_diversity |-> Cardinality(Sources(points))]

\* ================================================================ state
VARIABLES
    cache,            \* PredictionEngine._cache: NoCache or a CacheEntry
    cache_lock,       \* PredictionEngine._cache_lock: 0 when free, else the holder
    cache_ttl,        \* PredictionEngine._cache_ttl
    min_data_points,  \* PredictionEngine._min_data_points
    now,              \* the wall clock read by datetime.now(), in seconds
    pc,               \* position of each caller
    op,               \* public operation each caller is running
    force_refresh,    \* the force_refresh argument of the fetch_data in progress
    nested,           \* TRUE inside the generate_prediction called by get_detailed_analysis
    fetched,          \* what the fetch function returned to the caller
    raw_points,       \* value returned by fetch_data
    points,           \* value returned by _validate_data
    classified,       \* value returned by ForecastClassifier.classify
    analysis,         \* get_detailed_analysis: its own points and classified
    result,           \* outcome of the public operation
    calls_made,       \* history: fetch function invocations made by the running operation
    shares,           \* history: the refresh that was in flight when fetch_data was entered
    cleared_from,     \* history: what the cache held when clear_cache last emptied it
    gp                \* SpecPipe, SpecFetch, SpecWorker, SpecDate: the frame of the one
                      \* call (or the one dashboard) the specification follows

vars == <<cache, cache_lock, cache_ttl, min_data_points, now, pc, op, force_refresh,
          nested, fetched, raw_points, points, classified, analysis, result,
          calls_made, shares, cleared_from, gp>>

config == <<cache_ttl, min_data_points>>
locals == <<fetched, raw_points, points, classified, analysis>>
call == <<op, force_refresh, nested>>

NoCache == [kind |-> "empty"]
None == [kind |-> "None"]

\* a local that holds a list once it is assigned: before that the list of
\* None, which is no list of points
NoList == <<None>>

\* CacheEntry(data, timestamp)
CacheEntry(data, timestamp) ==
    [kind |-> "CacheEntry", data |-> data, timestamp |-> timestamp]

\* a variant that expires an entry as soon as its age reaches the TTL
IsExpiredInclusive(entry, ttl_seconds) ==
    LET age == now - entry.timestamp
    IN  age >= ttl_seconds

\* CacheEntry.is_expired
IsExpired(entry, ttl_seconds) ==
    LET age == now - entry.timestamp
    IN  age > ttl_seconds

\* what one invocation of the fetch function can do
\* one point that fails validation and one that passes
DataMixed == << Point("Metaculus", QAsi, Y2201, 0), Point("Manifold", QAgi, Y2030h, 4) >>
\* one point that fails validation
DataInvalid == << Point("Metaculus", QAgi, Y2024, 4) >>

FetchOutcomes ==
    { [kind |-> "raise"], [kind |-> "return", value |-> <<>>] }
    \cup { [kind |-> "return", value |-> d] : d \in {DataMixed, DataInvalid} }

Operations == {"fetch_data", "generate_prediction", "get_detailed_analysis", "clear_cache"}

IdleFrame == [pc |-> "idle"]

\* PredictionEngine.__init__
Init ==
    /\ cache = NoCache
    /\ cache_lock = 0
    /\ cache_ttl \in {0, TTL}
    /\ min_data_points \in 0..MaxMinPoints
    /\ now = 0
    /\ pc = [t \in Threads |-> "idle"]
    /\ op = [t \in Threads |-> "none"]
    /\ force_refresh = [t \in Threads |-> FALSE]
    /\ nested = [t \in Threads |-> FALSE]
    /\ fetched = [t \in Threads |-> None]
    /\ raw_points = [t \in Threads |-> NoList]
    /\ points = [t \in Threads |-> NoList]
    /\ classified = [t \in Threads |-> None]
    /\ analysis = [t \in Threads |-> None]
    /\ result = [t \in Threads |-> None]
    /\ calls_made = [t \in Threads |-> 0]
    /\ shares = [t \in Threads |-> "none"]
    /\ cleared_from = "never"
    /\ gp = IdleFrame

\* ============================================================== engine
Refreshing(t) == pc[t] \in {"fetching", "fetched"}

\* an operation that has ended hands its outcome to its caller at once
Quiet == \A u \in Threads : pc[u] # "done"

\* a caller invokes a public operation of the engine; fetch_data,
\* generate_prediction and get_detailed_analysis start by entering fetch_data
Call(t, o, f) ==
    /\ pc[t] = "idle"
    /\ Quiet
    /\ op' = [op EXCEPT ![t] = o]
    /\ pc' = [pc EXCEPT ![t] = "acquire"]
    /\ force_refresh' = [force_refresh EXCEPT ![t] = (o # "clear_cache" /\ f)]
    /\ shares' = [shares EXCEPT ![t] =
                    IF o # "clear_cache" /\ \E u \in Threads \ {t} : Refreshing(u)
                    THEN "pending" ELSE "none"]
    /\ UNCHANGED <<cache, cache_lock, config, now, nested, locals, result,
                   calls_made, cleared_from, gp>>

\* a variant that enters the block without waiting for the lock
AcquireUnguarded(t) ==
    /\ pc[t] = "acquire"
    /\ Quiet
    /\ cache_lock' = t
    /\ pc' = [pc EXCEPT ![t] = IF op[t] = "clear_cache" THEN "clear" ELSE "check"]
    /\ UNCHANGED <<cache, config, now, call, locals, result,
                   calls_made, shares, cleared_from, gp>>

\* with self._cache_lock: the lock is taken when it is free
Acquire(t) ==
    /\ pc[t] = "acquire"
    /\ Quiet
    /\ cache_lock = 0
    /\ cache_lock' = t
    /\ pc' = [pc EXCEPT ![t] = IF op[t] = "clear_cache" THEN "clear" ELSE "check"]
    /\ UNCHANGED <<cache, config, now, call, locals, result,
                   calls_made, shares, cleared_from, gp>>

\* the dictionary returned by get_detailed_analysis
DetailedAnalysis(prediction, own) ==
    [error |-> "none",
     prediction |-> prediction,
     total_data_points |-> Len(own.points),
     sources |-> Sources(own.points),
     agi_metrics |-> CalculateConfidenceMetrics(own.classified.agi),
     asi_metrics |-> CalculateConfidenceMetrics(own.classified.asi),
     singularity_metrics |-> CalculateConfidenceMetrics(own.classified.singularity),
     raw_forecasts |-> own.points]

\* fetch_data returns the list v and releases the lock; the caller runs on to
\* its next request for the lock or to the end of its operation:
\*   fetch_data             returns v
\*   generate_prediction    validates, classifies, aggregates, builds
\*   get_detailed_analysis  validates and classifies, then calls
\*                          generate_prediction(force_refresh=False), whose
\*                          Prediction it returns with its own points
Resume(t, v) ==
    LET validated == ValidateData(v, min_data_points)
        outer == op[t] = "get_detailed_analysis" /\ ~nested[t]
        predicted == PredictionFrom(v, min_data_points)
    IN  /\ cache_lock' = 0
        /\ raw_points' = [raw_points EXCEPT ![t] = v]
        /\ IF op[t] = "fetch_data"
           THEN /\ result' = [result EXCEPT ![t] = [error |-> "none", value |-> v]]
                /\ pc' = [pc EXCEPT ![t] = "done"]
                /\ UNCHANGED <<points, classified, analysis, nested, force_refresh>>
           ELSE IF validated.error # "none"
           THEN /\ result' = [result EXCEPT ![t] = validated]
                /\ pc' = [pc EXCEPT ![t] = "done"]
                /\ UNCHANGED <<points, classified, analysis, nested, force_refresh>>
           ELSE /\ points' = [points EXCEPT ![t] = validated.points]
                /\ classified' = [classified EXCEPT ![t] = Classify(validated.points)]
                /\ IF outer
                   THEN /\ analysis' = [analysis EXCEPT ![t] =
                                          [points |-> validated.points,
                                           classified |-> Classify(validated.points)]]
                        /\ nested' = [nested EXCEPT ![t] = TRUE]
                        /\ force_refresh' = [force_refresh EXCEPT ![t] = FALSE]
                        /\ pc' = [pc EXCEPT ![t] = "acquire"]
                        /\ UNCHANGED result
                   ELSE /\ result' = [result EXCEPT ![t] =
                                        IF nested[t]
                                        THEN DetailedAnalysis(predicted.prediction, analysis[t])
                                        ELSE predicted]
                        /\ pc' = [pc EXCEPT ![t] = "done"]
                        /\ UNCHANGED <<analysis, nested, force_refresh>>

\* get_detailed_analysis goes on to its second fetch_data when v passes validation
Reenters(t, v) ==
    /\ op[t] = "get_detailed_analysis"
    /\ ~nested[t]
    /\ ValidateData(v, min_data_points).error = "none"

\* a variant that leaves the block without releasing the lock
FailHoldsLock(t) ==
    /\ result' = [result EXCEPT ![t] = [error |-> "DataFetchError"]]
    /\ pc' = [pc EXCEPT ![t] = "done"]
    /\ UNCHANGED cache_lock
    /\ UNCHANGED <<raw_points, points, classified, analysis, nested, force_refresh>>

\* fetch_data raises DataFetchError, which no caller catches
Fail(t) ==
    /\ result' = [result EXCEPT ![t] = [error |-> "DataFetchError"]]
    /\ pc' = [pc EXCEPT ![t] = "done"]
    /\ cache_lock' = 0
    /\ UNCHANGED <<raw_points, points, classified, analysis, nested, force_refresh>>

\* a variant that serves a forced call from the cache
CacheHitIgnoresForce(t) ==
    /\ cache_ttl > 0
    /\ cache # NoCache
    /\ ~IsExpired(cache, cache_ttl)

\* a variant that serves an expired entry
CacheHitIgnoresExpiry(t) ==
    /\ ~force_refresh[t]
    /\ cache_ttl > 0
    /\ cache # NoCache

\* fetch_data: the cache test
CacheHit(t) ==
    /\ ~force_refresh[t]
    /\ cache_ttl > 0
    /\ cache # NoCache
    /\ ~IsExpired(cache, cache_ttl)

\* fetch_data: the cache test, then either the return of the cached list
\* or the invocation of the fetch function
CheckCache(t) ==
    /\ pc[t] = "check"
    /\ Quiet
    /\ IF CacheHit(t)
       THEN /\ Resume(t, cache.data)
            /\ shares' = [shares EXCEPT ![t] = IF Reenters(t, cache.data) THEN "none" ELSE @]
            /\ UNCHANGED calls_made
       ELSE /\ pc' = [pc EXCEPT ![t] = "fetching"]
            /\ calls_made' = [calls_made EXCEPT ![t] = @ + 1]
            /\ shares' = [u \in Threads |->
                            IF u # t /\ pc[u] = "acquire" /\ op[u] # "clear_cache"
                            THEN "pending" ELSE shares[u]]
            /\ UNCHANGED <<raw_points, points, classified, analysis, nested,
                           force_refresh, result, cache_lock>>
    /\ UNCHANGED <<cache, config, now, op, fetched, cleared_from, gp>>

\* the fetch function returns a list or raises
FetchReturns(t, outcome) ==
    /\ pc[t] = "fetching"
    /\ Quiet
    /\ fetched' = [fetched EXCEPT ![t] = outcome]
    /\ pc' = [pc EXCEPT ![t] = "fetched"]
    /\ UNCHANGED <<cache, cache_lock, config, now, call, raw_points, points, classified,
                   analysis, result, calls_made, shares, cleared_from, gp>>

\* history: callers that wait for the refresh of t learn how it ended
RefreshEnded(t, stored, again) ==
    [u \in Threads |->
        IF u = t THEN (IF again THEN "none" ELSE shares[u])
        ELSE IF shares[u] = "pending" THEN (IF stored THEN "stored" ELSE "lost")
        ELSE IF shares[u] = "stored" /\ stored THEN "lost"
        ELSE shares[u]]

\* a variant without the test for an empty result
FetchFailedRaiseOnly(outcome) ==
    outcome.kind = "raise"

\* fetch_data: the fetch function raised (except Exception) or returned
\* nothing (if not points)
FetchFailed(outcome) ==
    \/ outcome.kind = "raise"
    \/ outcome.value = <<>>

\* a variant that updates the cache whatever the TTL
StoreAlways == TRUE

\* a variant that updates the cache only with a list that passes validation
StoreValidated ==
    /\ cache_ttl > 0
    /\ \A t \in Threads :
           pc[t] = "fetched" /\ fetched[t].kind = "return" =>
               ValidateData(fetched[t].value, min_data_points).error = "none"

\* fetch_data: the test that guards the cache update
StoreEnabled == cache_ttl > 0

\* fetch_data after the fetch function: the two DataFetchError exits, or the
\* cache update and the return of the fetched list
FinishFetch(t) ==
    /\ pc[t] = "fetched"
    /\ Quiet
    /\ IF FetchFailed(fetched[t])
       THEN /\ Fail(t)
            /\ shares' = RefreshEnded(t, FALSE, FALSE)
            /\ UNCHANGED <<cache, cleared_from>>
       ELSE /\ IF StoreEnabled
               THEN /\ cache' = CacheEntry(fetched[t].value, now)
                    /\ cleared_from' = "never"
               ELSE UNCHANGED <<cache, cleared_from>>
            /\ shares' = RefreshEnded(t, StoreEnabled, Reenters(t, fetched[t].value))
            /\ Resume(t, fetched[t].value)
    /\ UNCHANGED <<config, now, op, fetched, calls_made, gp>>

\* a variant that drops the entry only when it has expired
ClearCacheIfExpired(t) ==
    /\ pc[t] = "clear"
    /\ Quiet
    /\ IF cache # NoCache /\ ~IsExpired(cache, cache_ttl)
       THEN UNCHANGED <<cache, cleared_from, shares>>
       ELSE /\ cache' = NoCache
            /\ cleared_from' = IF cache = NoCache THEN "empty" ELSE "expired"
            /\ shares' = [u \in Threads |-> IF shares[u] = "stored" THEN "lost" ELSE shares[u]]
    /\ cache_lock' = 0
    /\ result' = [result EXCEPT ![t] = [error |-> "none"]]
    /\ pc' = [pc EXCEPT ![t] = "done"]
    /\ UNCHANGED <<config, now, call, locals, calls_made, gp>>

\* clear_cache, under the lock
ClearCache(t) ==
    /\ pc[t] = "clear"
    /\ Quiet
    /\ cache' = NoCache
    /\ cleared_from' = IF cache = NoCache THEN "empty"
                       ELSE IF IsExpired(cache, cache_ttl) THEN "expired" ELSE "fresh"
    /\ shares' = [u \in Threads |-> IF shares[u] = "stored" THEN "lost" ELSE shares[u]]
    /\ cache_lock' = 0
    /\ result' = [result EXCEPT ![t] = [error |-> "none"]]
    /\ pc' = [pc EXCEPT ![t] = "done"]
    /\ UNCHANGED <<config, now, call, locals, calls_made, gp>>

\* the caller takes the outcome and is ready for its next call
Return(t) ==
    /\ pc[t] = "done"
    /\ pc' = [pc EXCEPT ![t] = "idle"]
    /\ op' = [op EXCEPT ![t] = "none"]
    /\ force_refresh' = [force_refresh EXCEPT ![t] = FALSE]
    /\ nested' = [nested EXCEPT ![t] = FALSE]
    /\ fetched' = [fetched EXCEPT ![t] = None]
    /\ raw_points' = [raw_points EXCEPT ![t] = NoList]
    /\ points' = [points EXCEPT ![t] = NoList]
    /\ classified' = [classified EXCEPT ![t] = None]
    /\ analysis' = [analysis EXCEPT ![t] = None]
    /\ result' = [result EXCEPT ![t] = None]
    /\ calls_made' = [calls_made EXCEPT ![t] = 0]
    /\ shares' = [shares EXCEPT ![t] = "none"]
    /\ UNCHANGED <<cache, cache_lock, config, now, cleared_from, gp>>

\* one second passes
Tick ==
    /\ now < MaxTime
    /\ Quiet
    /\ now' = now + 1
    /\ UNCHANGED <<cache, cache_lock, config, pc, call, locals, result,
                   calls_made, shares, cleared_from, gp>>

Next ==
    \/ \E t \in Threads, o \in Operations, f \in BOOLEAN : Call(t, o, f)
    \/ \E t \in Threads : Acquire(t)
    \/ \E t \in Threads : CheckCache(t)
    \/ \E t \in Threads, outcome \in FetchOutcomes : FetchReturns(t, outcome)
    \/ \E t \in Threads : FinishFetch(t)
    \/ \E t \in Threads : ClearCache(t)
    \/ \E t \in Threads : Return(t)
    \/ Tick

Spec == Init /\ [][Next]_vars

\* ============================================================ SpecLock
\* The callers of the two operations that take the lock, fetch_data and
\* clear_cache (generate_prediction and get_detailed_analysis reach the lock
\* only through fetch_data), with the scheduling of their threads: a caller
\* inside the with block runs on (the fetch function comes back, the block
\* is left, the outcome is taken), and a caller blocked at the lock gets it
\* when it is released again and again.  Nothing obliges a caller to start
\* a call or time to pass.  Each of these steps moves the caller, so the
\* conditions are on pc.
LockOperations == {"fetch_data", "clear_cache"}

Runs(t) ==
    \/ CheckCache(t)
    \/ \E outcome \in FetchOutcomes : FetchReturns(t, outcome)
    \/ FinishFetch(t)
    \/ ClearCache(t)
    \/ Return(t)

Scheduling ==
    \A t \in Threads : WF_pc(Runs(t)) /\ SF_pc(Acquire(t))

LockNext ==
    \/ \E t \in Threads, o \in LockOperations, f \in BOOLEAN : Call(t, o, f)
    \/ \E t \in Threads : Acquire(t)
    \/ \E t \in Threads : Runs(t)
    \/ Tick

SpecLock == Init /\ [][LockNext]_vars /\ Scheduling

\* ============================================================ SpecPipe
\* generate_prediction from the list fetch_data returned to the Prediction,
\* one group of statements at a time

\* fetch_data never returns an empty list
PipeInputs == SeqsUpTo(PointUniverse, MaxLen) \ { <<>> }

PipeFrame(position, raw, valid, buckets, years, outcome) ==
    [pc |-> position, raw_points |-> raw, points |-> valid, classified |-> buckets,
     years |-> years, result |-> outcome]

PipeInit ==
    /\ cache = NoCache
    /\ cache_lock = 0
    /\ cache_ttl = 0
    /\ min_data_points \in 0..MaxMinPoints
    /\ now = 0
    /\ pc = [t \in Threads |-> "idle"]
    /\ op = [t \in Threads |-> "none"]
    /\ force_refresh = [t \in Threads |-> FALSE]
    /\ nested = [t \in Threads |-> FALSE]
    /\ fetched = [t \in Threads |-> None]
    /\ raw_points = [t \in Threads |-> NoList]
    /\ points = [t \in Threads |-> NoList]
    /\ classified = [t \in Threads |-> None]
    /\ analysis = [t \in Threads |-> None]
    /\ result = [t \in Threads |-> None]
    /\ calls_made = [t \in Threads |-> 0]
    /\ shares = [t \in Threads |-> "none"]
    /\ cleared_from = "never"
    /\ \E raw \in PipeInputs : gp = PipeFrame("validate", raw, None, None, None, None)

engine == <<cache, cache_lock, cache_ttl, min_data_points, now, pc, op, force_refresh,
            nested, fetched, raw_points, points, classified, analysis, result,
            calls_made, shares, cleared_from>>

\* points = self._validate_data(raw_points)
PipeValidate ==
    /\ gp.pc = "validate"
    /\ LET validated == ValidateData(gp.raw_points, min_data_points)
       IN  gp' = IF validated.error # "none"
                 THEN [gp EXCEPT !.pc = "raised", !.result = validated]
                 ELSE [gp EXCEPT !.pc = "classify", !.points = validated.points]
    /\ UNCHANGED engine

\* classified = ForecastClassifier.classify(points)
PipeClassify ==
    /\ gp.pc = "classify"
    /\ gp' = [gp EXCEPT !.pc = "fallback", !.classified = Classify(gp.points)]
    /\ UNCHANGED engine

\* the fallbacks for empty categories
PipeFallback ==
    /\ gp.pc = "fallback"
    /\ gp' = [gp EXCEPT !.pc = "aggregate",
                        !.classified = ApplyFallbacks(gp.classified, gp.points)]
    /\ UNCHANGED engine

\* the three aggregate_forecasts calls
PipeAggregate ==
    /\ gp.pc = "aggregate"
    /\ gp' = [gp EXCEPT !.pc = "order", !.years = Aggregates(gp.classified)]
    /\ UNCHANGED engine

\* the two ordering corrections
PipeOrder ==
    /\ gp.pc = "order"
    /\ gp' = [gp EXCEPT !.pc = "build", !.years = EnforceOrder(gp.years)]
    /\ UNCHANGED engine

\* the Prediction is built and returned
PipeBuild ==
    /\ gp.pc = "build"
    /\ gp' = [gp EXCEPT !.pc = "returned",
                        !.result = [error |-> "none",
                                    prediction |-> BuildPrediction(gp.classified, gp.years)]]
    /\ UNCHANGED engine

PipeNext ==
    \/ PipeValidate
    \/ PipeClassify
    \/ PipeFallback
    \/ PipeAggregate
    \/ PipeOrder
    \/ PipeBuild

SpecPipe == PipeInit /\ [][PipeNext]_vars

\* ============================================================ SpecFetch
\* scraper.fetch_agi_forecasts: the three source adapters in turn, then the
\* deduplication of what they returned and the aggregate of the result

\* two questions equal in their first 50 characters up to case, and one
\* that differs from them in the 50th character
QLongA ==
    <<"W","i","l","l"," ","t","h","e"," ","f","i","r","s",
    "t"," ","a","r","t","i","f","i","c","i","a","l"," ",
    "g","e","n","e","r","a","l"," ","i","n","t","e","l",
    "l","i","g","e","n","c","e"," ","b","e"," ","b","u",
    "i","l","t">>
QLongB ==
    <<"W","I","L","L"," ","t","h","e"," ","F","i","r","s",
    "t"," ","A","r","t","i","f","i","c","i","a","l"," ",
    "G","e","n","e","r","a","l"," ","I","n","t","e","l",
    "l","i","g","e","n","c","e"," ","B","E"," ","S","H",
    "O","W","N">>
QLongC ==
    <<"W","i","l","l"," ","t","h","e"," ","f","i","r","s",
    "t"," ","a","r","t","i","f","i","c","i","a","l"," ",
    "g","e","n","e","r","a","l"," ","i","n","t","e","l",
    "l","i","g","e","n","c","e"," ","b","e","c","o","m",
    "e"," ","r","e","a","l">>
\* the question of QAgi in another case
QAgiLower == <<"w","h","e","n"," ","a","g","i">>

Y2030 == <<2030, 1>>
Y2031 == <<2031, 1>>
Y2040 == <<2040, 1>>

\* the points each adapter can return
AdapterPoints(source) ==
    IF source = "Metaculus"
    THEN { Point("Metaculus", QLongA, Y2030h, 0), Point("Metaculus", QLongC, Y2040, -1) }
    ELSE IF source = "Polymarket"
    THEN { Point("Polymarket", QLongB, Y2031, 100), Point("Polymarket", QAgi, Y2031, 100) }
    ELSE { Point("Manifold", QAgiLower, Y2030, 9), Point("Manifold", QLongC, Y2031, 9) }

\* an adapter raises, or returns a list of points
AdapterOutcomes(source) ==
    { [kind |-> "raise"] }
    \cup { [kind |-> "return", value |-> s] :
             s \in SeqsUpTo(AdapterPoints(source), MaxAdapterPoints) }

TitleKeyLength == 50

Take(s, n) == SubSeq(s, 1, Min(n, Len(s)))

\* a variant whose key is the whole lower-cased question
TitleKeyUncut(point) == Lower(point.question)

\* title_key = p.question.lower()[:50]
TitleKey(point) == Take(Lower(point.question), TitleKeyLength)

\* the deduplication loop of fetch_agi_forecasts
RECURSIVE UniquePoints(_, _, _)
UniquePoints(all_points, seen_titles, unique_points) ==
    IF all_points = <<>> THEN unique_points
    ELSE LET p == Head(all_points)
             title_key == TitleKey(p)
         IN  IF title_key \notin seen_titles
             THEN UniquePoints(Tail(all_points), seen_titles \cup {title_key},
                               Append(unique_points, p))
             ELSE UniquePoints(Tail(all_points), seen_titles, unique_points)

FetchFrame(position, outcomes, all_points, outcome) ==
    [pc |-> position, adapters |-> outcomes, all_points |-> all_points, result |-> outcome]

\* a variant without the try/except around the adapter
ExtendOrRaise(frame, outcome, next) ==
    IF outcome.kind = "raise"
    THEN [frame EXCEPT !.pc = "raised", !.adapters = Append(@, outcome)]
    ELSE [frame EXCEPT !.pc = next, !.adapters = Append(@, outcome),
                       !.all_points = @ \o outcome.value]

\* try: all_points.extend(<adapter call>) except Exception: pass
ExtendOrPass(frame, outcome, next) ==
    IF outcome.kind = "raise"
    THEN [frame EXCEPT !.pc = next, !.adapters = Append(@, outcome)]
    ELSE [frame EXCEPT !.pc = next, !.adapters = Append(@, outcome),
                       !.all_points = @ \o outcome.value]

\* PredictionEngine() with its default arguments, nobody calling it
EngineAtRest ==
    /\ cache = NoCache
    /\ cache_lock = 0
    /\ cache_ttl = 0
    /\ min_data_points = 1
    /\ now = 0
    /\ pc = [t \in Threads |-> "idle"]
    /\ op = [t \in Threads |-> "none"]
    /\ force_refresh = [t \in Threads |-> FALSE]
    /\ nested = [t \in Threads |-> FALSE]
    /\ fetched = [t \in Threads |-> None]
    /\ raw_points = [t \in Threads |-> NoList]
    /\ points = [t \in Threads |-> NoList]
    /\ classified = [t \in Threads |-> None]
    /\ analysis = [t \in Threads |-> None]
    /\ result = [t \in Threads |-> None]
    /\ calls_made = [t \in Threads |-> 0]
    /\ shares = [t \in Threads |-> "none"]
    /\ cleared_from = "never"

FetchInit ==
    /\ EngineAtRest
    /\ gp = FetchFrame("metaculus", <<>>, <<>>, None)

\* all_points.extend(metaculus.fetch_all())
FetchMetaculus ==
    /\ gp.pc = "metaculus"
    /\ \E outcome \in AdapterOutcomes("Metaculus") :
           gp' = ExtendOrPass(gp, outcome, "polymarket")
    /\ UNCHANGED engine

\* all_points.extend(polymarket.fetch_ai_markets())
FetchPolymarket ==
    /\ gp.pc = "polymarket"
    /\ \E outcome \in AdapterOutcomes("Polymarket") :
           gp' = ExtendOrPass(gp, outcome, "manifold")
    /\ UNCHANGED engine

\* all_points.extend(manifold.fetch_ai_markets())
FetchManifold ==
    /\ gp.pc = "manifold"
    /\ \E outcome \in AdapterOutcomes("Manifold") :
           gp' = ExtendOrPass(gp, outcome, "deduplicate")
    /\ UNCHANGED engine

\* the deduplication, the aggregate and the return
FetchDeduplicate ==
    /\ gp.pc = "deduplicate"
    /\ LET unique_points == UniquePoints(gp.all_points, {}, <<>>)
       IN  gp' = [gp EXCEPT !.pc = "returned",
                            !.result = [points |-> unique_points,
                                        agg |-> AggregateForecasts(unique_points)]]
    /\ UNCHANGED engine

FetchNext ==
    \/ FetchMetaculus
    \/ FetchPolymarket
    \/ FetchManifold
    \/ FetchDeduplicate

SpecFetch == FetchInit /\ [][FetchNext]_vars

\* =========================================================== SpecWorker
\* ui/dashboard.DashboardTab with its AnalysisWorker (workers.py): the
\* worker thread emits signals, which Qt queues for the slots of the
\* dashboard; the engine is the dashboard's own PredictionEngine()

ProgressUpdate(value, msg) == [signal |-> "progress_update", value |-> value, msg |-> msg]
ResultReady(prediction) == [signal |-> "result_ready", prediction |-> prediction]

\* the progress_update.emit statements of the try block, by position
ProgressAt(position) ==
    CASE position = "emit5" ->
           [event |-> ProgressUpdate(5, "Connecting to prediction markets..."), next |-> "emit15"]
      [] position = "emit15" ->
           [event |-> ProgressUpdate(15, "Scraping Metaculus API..."), next |-> "emit35"]
      [] position = "emit35" ->
           [event |-> ProgressUpdate(35, "Scraping Polymarket..."), next |-> "emit55"]
      [] position = "emit55" ->
           [event |-> ProgressUpdate(55, "Scraping Manifold Markets..."), next |-> "generate"]
      [] position = "emit85" ->
           [event |-> ProgressUpdate(85, "Aggregating forecasts (weighted analysis)..."),
            next |-> "emit100"]
      [] position = "emit100" ->
           [event |-> ProgressUpdate(100, "Done - fresh data analyzed!"), next |-> "result_ready"]

ProgressPositions == {"emit5", "emit15", "emit35", "emit55", "emit85", "emit100"}

\* what the fetch function does in a run of the worker
WorkerFetchOutcomes ==
    { [kind |-> "raise"] }
    \cup { [kind |-> "return", value |-> d] : d \in SeqsUpTo(PointUniverse, 1) }

\* generate_prediction on an engine without cache: the error raised, or
\* the Prediction
GeneratePrediction(outcome) ==
    IF FetchFailed(outcome) THEN [error |-> "DataFetchError"]
    ELSE PredictionFrom(outcome.value, min_data_points)

Emit(frame, event, next) ==
    [frame EXCEPT !.pc = next, !.emitted = Append(@, event), !.queue = Append(@, event)]

\* a variant whose handler swallows the exception
WorkerExceptSilent(frame) == [frame EXCEPT !.pc = "finished"]

\* except Exception as e: self.progress_update.emit(0, f"Error: {e}")
WorkerExcept(frame) ==
    Emit(frame, ProgressUpdate(0, <<"Error: ", frame.outcome.error>>), "finished")

Dashboard(enabled, progress, status, saved) ==
    [refresh_btn |-> enabled, progress |-> progress, status_label |-> status, db |-> saved]

WorkerInit ==
    /\ EngineAtRest
    /\ gp = [pc |-> "ready", runs |-> 0, emitted |-> <<>>, queue |-> <<>>, outcome |-> None,
             ui |-> Dashboard(TRUE, 0, "Ready to analyze.", <<>>)]

\* DashboardTab.start_analysis, on a click of the enabled button
StartAnalysis ==
    /\ gp.pc \in {"ready", "finished"}
    /\ gp.ui.refresh_btn
    /\ gp.runs < MaxRuns
    /\ gp' = [gp EXCEPT !.pc = "emit5", !.runs = @ + 1, !.emitted = <<>>, !.outcome = None,
                        !.ui.refresh_btn = FALSE, !.ui.progress = 0]
    /\ UNCHANGED engine

\* AnalysisWorker.run: one progress_update.emit of the try block
WorkerProgress ==
    /\ gp.pc \in ProgressPositions
    /\ gp' = Emit(gp, ProgressAt(gp.pc).event, ProgressAt(gp.pc).next)
    /\ UNCHANGED engine

\* prediction = self._engine.generate_prediction()
WorkerGenerate ==
    /\ gp.pc = "generate"
    /\ \E outcome \in WorkerFetchOutcomes :
          LET generated == GeneratePrediction(outcome)
          IN  gp' = [gp EXCEPT !.outcome = generated,
                               !.pc = IF generated.error # "none" THEN "except" ELSE "emit85"]
    /\ UNCHANGED engine

\* self.result_ready.emit(prediction)
WorkerResultReady ==
    /\ gp.pc = "result_ready"
    /\ gp' = Emit(gp, ResultReady(gp.outcome.prediction), "finished")
    /\ UNCHANGED engine

\* the except clause of run
WorkerRaised ==
    /\ gp.pc = "except"
    /\ gp' = WorkerExcept(gp)
    /\ UNCHANGED engine

\* DashboardTab._update_progress, run by the event loop for a queued signal
UpdateProgress ==
    /\ gp.queue # <<>>
    /\ Head(gp.queue).signal = "progress_update"
    /\ gp' = [gp EXCEPT !.queue = Tail(@),
                        !.ui.progress = Head(gp.queue).value,
                        !.ui.status_label = Head(gp.queue).msg]
    /\ UNCHANGED engine

\* DashboardTab._display_results, run by the event loop for a queued signal
DisplayResults ==
    /\ gp.queue # <<>>
    /\ Head(gp.queue).signal = "result_ready"
    /\ gp' = [gp EXCEPT !.queue = Tail(@),
                        !.ui.status_label = "Prediction Complete (Confidence: High)",
                        !.ui.db = Append(@, Head(gp.queue).prediction),
                        !.ui.refresh_btn = TRUE]
    /\ UNCHANGED engine

WorkerNext ==
    \/ StartAnalysis
    \/ WorkerProgress
    \/ WorkerGenerate
    \/ WorkerResultReady
    \/ WorkerRaised
    \/ UpdateProgress
    \/ DisplayResults

SpecWorker == WorkerInit /\ [][WorkerNext]_vars

\* ============================================================= SpecDate
\* PredictionEngine._year_to_date_string on two years

\* years of the range generate_prediction converts, with fractions on both
\* sides of a month boundary and next to the end of a year
DateYears ==
    { <<2025, 1>>, <<2030, 1>>, <<32481, 16>>, <<16241, 8>>, <<4061, 2>>,
      <<32489, 16>>, <<32495, 16>>, <<2031, 1>>, <<17599, 8>>, <<2235, 1>> }

DateInit ==
    /\ EngineAtRest
    /\ \E a, b \in DateYears : gp = [pc |-> "call", year |-> a, other |-> b]

\* the two calls return
DateConvert ==
    /\ gp.pc = "call"
    /\ gp' = [pc |-> "returned", year |-> gp.year, other |-> gp.other,
              date |-> YearToDate(gp.year), text |-> YearToDateString(gp.year),
              other_date |-> YearToDate(gp.other)]
    /\ UNCHANGED engine

DateNext == DateConvert

SpecDate == DateInit /\ [][DateNext]_vars

\* ============================================================== claims

\* C1 (SpecPipe): every Prediction returned by generate_prediction has
\* agi_date <= asi_date <= singularity_date as calendar dates, and the
\* years they are converted from satisfy agi_year <= asi_year <=
\* singularity_year after the two corrections, whatever the raw aggregates.
C1_DatesOrdered ==
    /\ gp.pc \in {"build", "returned"} =>
          /\ FLe(gp.years.agi, gp.years.asi)
          /\ FLe(gp.years.asi, gp.years.singularity)
    /\ gp.pc = "returned" =>
          /\ DateLe(gp.result.prediction.agi_date, gp.result.prediction.asi_date)
          /\ DateLe(gp.result.prediction.asi_date, gp.result.prediction.singularity_date)

\* a Prediction was returned although the raw ASI aggregate lay before the
\* AGI aggregate and the raw singularity aggregate lay between the raw and
\* the corrected ASI year
C1_Witness ==
    /\ gp.pc = "returned"
    /\ LET raw == Aggregates(gp.classified)
       IN  /\ FLt(raw.asi, raw.agi)
           /\ FLt(raw.asi, raw.singularity)
           /\ FLt(raw.singularity, gp.years.asi)
    /\ gp.result.prediction.agi_date # gp.result.prediction.asi_date

\* the validation rule as the specification words it
RuleKeeps(point) ==
    /\ point.median_year[1] >= 2025 * point.median_year[2]
    /\ point.median_year[1] <= 2200 * point.median_year[2]
    /\ point.num_forecasters >= 0

RECURSIVE RuleFilter(_)
RuleFilter(input) ==
    IF input = <<>> THEN <<>>
    ELSE IF RuleKeeps(Head(input))
         THEN <<Head(input)>> \o RuleFilter(Tail(input))
         ELSE RuleFilter(Tail(input))

\* C9 (SpecPipe): the validator keeps exactly the points with
\* 2025 <= median_year <= 2200 and num_forecasters >= 0, in input order and
\* unchanged; when it raises, the count it reports is the count of such points.
C9_ValidatorKeepsRule ==
    gp.pc # "validate" =>
        IF gp.pc = "raised"
        THEN gp.result.got = Len(RuleFilter(gp.raw_points))
        ELSE gp.points = RuleFilter(gp.raw_points)

\* a list with the years 2024, 2025 and 2200 was validated: 2024 was dropped,
\* the other two points were kept in order
C9_Witness ==
    /\ gp.pc = "classify"
    /\ Len(gp.raw_points) = 3
    /\ gp.raw_points[1].median_year = Y2025
    /\ gp.raw_points[2].median_year = Y2024
    /\ gp.raw_points[3].median_year = Y2200
    /\ gp.points = << gp.raw_points[1], gp.raw_points[3] >>

\* ------------------------------------------------ steps of fetch_data
\* caller t leaves the cache test
Checks(t) == pc[t] = "check" /\ pc'[t] # "check"

\* caller t invokes the fetch function
Invokes(t) == pc'[t] = "fetching" /\ calls_made'[t] = calls_made[t] + 1

\* caller t leaves fetch_data after the fetch function came back
Finishes(t) == pc[t] = "fetched" /\ pc'[t] # "fetched"

\* C2 (Spec): with the TTL set, a non-forced fetch_data that finds an entry
\* whose age is at most the TTL returns the stored data without invoking the
\* fetch function, so that it and the call that stored the entry invoke it
\* once in total; a non-forced call that finds an entry older than the TTL
\* invokes the fetch function again.
C2_CacheWithinTtl ==
    [][\A t \in Threads :
          /\ op'[t] = "fetch_data" => calls_made'[t] <= 1
          /\ (Checks(t) /\ ~force_refresh[t] /\ cache_ttl = TTL /\ cache # NoCache) =>
                IF now - cache.timestamp <= TTL
                THEN /\ ~Invokes(t)
                     /\ calls_made'[t] = calls_made[t]
                     /\ raw_points'[t] = cache.data
                     /\ op[t] = "fetch_data" =>
                           result'[t] = [error |-> "none", value |-> cache.data]
                ELSE Invokes(t)]_vars

\* a non-forced fetch_data returned the stored data exactly TTL seconds after
\* it was stored, without an invocation of its own
C2_Witness ==
    \E t \in Threads :
        /\ pc[t] = "done"
        /\ op[t] = "fetch_data"
        /\ ~force_refresh[t]
        /\ calls_made[t] = 0
        /\ cache # NoCache
        /\ result[t] = [error |-> "none", value |-> cache.data]
        /\ now - cache.timestamp = TTL

\* C3 (Spec): when the fetch function raises or returns an empty list, the
\* operation ends with DataFetchError and the cache is exactly what it was;
\* the cache never holds an empty list.
C3_FailedFetchLeavesCache ==
    [][/\ \A t \in Threads :
             (Finishes(t) /\ (fetched[t].kind = "raise" \/ fetched[t].value = <<>>)) =>
                 /\ pc'[t] = "done"
                 /\ result'[t] = [error |-> "DataFetchError"]
                 /\ cache' = cache
       /\ cache' # NoCache => cache'.data # <<>>]_vars

\* generate_prediction ended with DataFetchError on an empty fetch result
\* while the cache held an earlier entry
C3_Witness ==
    \E t \in Threads :
        /\ pc[t] = "done"
        /\ op[t] = "generate_prediction"
        /\ fetched[t] = [kind |-> "return", value |-> <<>>]
        /\ result[t] = [error |-> "DataFetchError"]
        /\ cache # NoCache
        /\ cache.timestamp < now

\* C4 (Spec): at most one invocation of the fetch function is in progress,
\* and every caller between its cache test and its store (or in the body of
\* clear_cache) holds the lock, so no other caller touches the cache there.
C4_FetchIsAtomic ==
    /\ Cardinality({ t \in Threads : pc[t] = "fetching" }) <= 1
    /\ \A t \in Threads :
          pc[t] \in {"check", "fetching", "fetched", "clear"} => cache_lock = t

\* one caller is inside the fetch function while a clear_cache caller waits
C4_Witness ==
    \E t, u \in Threads :
        /\ pc[t] = "fetching"
        /\ pc[u] = "acquire"
        /\ op[u] = "clear_cache"

\* C5 as stated (Spec): a caller that entered fetch_data, or waited for the
\* lock, during another caller's refresh never invokes the fetch function.
C5_Original ==
    [][\A t \in Threads : (Checks(t) /\ shares[t] # "none") => ~Invokes(t)]_vars

\* C5 as amended (Spec): such a caller stays blocked while the refresh is in
\* flight; with force_refresh False it returns the entry that refresh stored,
\* without an invocation of its own, when that entry is still in the cache
\* and not older than the TTL; with force_refresh True, a TTL of 0, an empty
\* cache or an expired entry it invokes the fetch function itself.
C5_WaiterSharesStoredEntry ==
    [][\A t \in Threads :
          /\ shares[t] = "pending" =>
                pc[t] = "acquire" /\ \E u \in Threads \ {t} : Refreshing(u)
          /\ shares[t] = "stored" => (cache # NoCache /\ cache_ttl > 0)
          /\ (Checks(t) /\ shares[t] = "stored" /\ ~force_refresh[t]
                /\ now - cache.timestamp <= cache_ttl) =>
                /\ ~Invokes(t)
                /\ calls_made'[t] = calls_made[t]
                /\ raw_points'[t] = cache.data
          /\ (Checks(t) /\ shares[t] # "none"
                /\ (\/ force_refresh[t]
                    \/ cache_ttl = 0
                    \/ cache = NoCache
                    \/ now - cache.timestamp > cache_ttl)) =>
                Invokes(t)]_vars

\* a fetch_data caller that waited for a refresh returned the entry it stored
C5_Witness ==
    \E t \in Threads :
        /\ pc[t] = "done"
        /\ op[t] = "fetch_data"
        /\ shares[t] = "stored"
        /\ calls_made[t] = 0
        /\ result[t] = [error |-> "none", value |-> cache.data]

\* C6 (Spec): with a TTL of 0 the cache is empty in every state and every
\* fetch_data call, forced or not, invokes the fetch function.
C6_ZeroTtlNeverCaches ==
    [][/\ cache_ttl = 0 => (cache = NoCache /\ cache' = NoCache)
       /\ \A t \in Threads : (Checks(t) /\ cache_ttl = 0) => Invokes(t)]_vars

\* with a TTL of 0 a non-forced fetch_data returned a fetched list after one
\* invocation, and the cache is empty
C6_Witness ==
    \E t \in Threads :
        /\ cache_ttl = 0
        /\ pc[t] = "done"
        /\ op[t] = "fetch_data"
        /\ ~force_refresh[t]
        /\ calls_made[t] = 1
        /\ result[t] = [error |-> "none", value |-> DataMixed]
        /\ cache = NoCache

\* C7 (Spec): clear_cache leaves the cache empty whatever it held, the cache
\* stays empty until a fetch stores an entry, and a fetch_data that finds it
\* empty invokes the fetch function.
C7_ClearEmptiesCache ==
    [][/\ \A t \in Threads :
             /\ (pc[t] = "clear" /\ pc'[t] # "clear") => cache' = NoCache
             /\ (Checks(t) /\ cache = NoCache) => Invokes(t)
       /\ (cache = NoCache /\ cache' # NoCache) => \E t \in Threads : Finishes(t)]_vars

\* clear_cache dropped an unexpired entry and a non-forced caller is now
\* inside the fetch function
C7_Witness ==
    /\ cleared_from = "fresh"
    /\ cache = NoCache
    /\ \E t \in Threads : pc[t] = "fetching" /\ ~force_refresh[t]

\* C8 (Spec): a forced fetch_data invokes the fetch function whatever the
\* cache holds, and with a non-empty result and TTL > 0 the cache then holds
\* exactly the fetched list with the current time.
C8_ForceRefreshReplaces ==
    [][\A t \in Threads :
          /\ (Checks(t) /\ force_refresh[t]) => Invokes(t)
          /\ (Finishes(t) /\ force_refresh[t] /\ cache_ttl > 0
                /\ fetched[t].kind = "return" /\ fetched[t].value # <<>>) =>
                cache' = [kind |-> "CacheEntry", data |-> fetched[t].value,
                          timestamp |-> now]]_vars

\* a forced call got a new list from the fetch function while the cache
\* holds a different, unexpired entry
C8_Witness ==
    \E t \in Threads :
        /\ pc[t] = "fetched"
        /\ force_refresh[t]
        /\ cache # NoCache
        /\ now - cache.timestamp <= cache_ttl
        /\ fetched[t].kind = "return"
        /\ fetched[t].value # <<>>
        /\ fetched[t].value # cache.data

HasKeyword(keywords, question) ==
    \E kw \in keywords :
        \E i \in 0..(Len(question) - Len(kw)) :
            \A j \in 1..Len(kw) : Lower(question)[i + j] = kw[j]

BucketOf(point) ==
    IF HasKeyword(SINGULARITY_KEYWORDS, point.question) THEN "singularity"
    ELSE IF HasKeyword(ASI_KEYWORDS, point.question) THEN "asi"
    ELSE "agi"

RECURSIVE InBucket(_, _)
InBucket(input, bucket) ==
    IF input = <<>> THEN <<>>
    ELSE IF BucketOf(Head(input)) = bucket
         THEN <<Head(input)>> \o InBucket(Tail(input), bucket)
         ELSE InBucket(Tail(input), bucket)

C11_ClassifierPartitions ==
    gp.pc = "fallback" =>
        /\ gp.classified.agi = InBucket(gp.points, "agi")
        /\ gp.classified.asi = InBucket(gp.points, "asi")
        /\ gp.classified.singularity = InBucket(gp.points, "singularity")
        /\ Len(gp.classified.agi) + Len(gp.classified.asi)
              + Len(gp.classified.singularity) = Len(gp.points)

\* three points were classified: a question with both kinds of keyword went
\* to singularity ahead of a singularity question that came after it, and
\* the ASI question between them went to asi
C11_Witness ==
    /\ gp.pc = "fallback"
    /\ Len(gp.points) = 3
    /\ gp.points[1].question = QBoth
    /\ gp.points[2].question = QAsi
    /\ gp.points[3].question = QSing
    /\ gp.classified.singularity = <<gp.points[1], gp.points[3]>>
    /\ gp.classified.asi = <<gp.points[2]>>
    /\ gp.classified.agi = <<>>

\* C12 (SpecFetch): the deduplicator returns a subsequence of its input in
\* which no two points share a key, the key being the lower-cased question
\* truncated to 50 characters; every key of the input is the key of a point
\* of the output, the point kept for a key is the first input point with
\* that key, and deduplicating the output again returns it unchanged.
KeyOf(point) ==
    LET q == Lower(point.question)
    IN  [i \in 1..(IF Len(q) < 50 THEN Len(q) ELSE 50) |-> q[i]]

RECURSIVE IsSubsequence(_, _)
IsSubsequence(s, t) ==
    IF s = <<>> THEN TRUE
    ELSE IF t = <<>> THEN FALSE
    ELSE IF Head(s) = Head(t) THEN IsSubsequence(Tail(s), Tail(t))
    ELSE IsSubsequence(s, Tail(t))

C12_DeduplicatorKeepsFirst ==
    gp.pc = "returned" =>
        LET input == gp.all_points
            output == gp.result.points
        IN  /\ IsSubsequence(output, input)
            /\ \A i, j \in 1..Len(output) :
                   i # j => KeyOf(output[i]) # KeyOf(output[j])
            /\ \A i \in 1..Len(input) :
                   \E j \in 1..Len(output) : KeyOf(output[j]) = KeyOf(input[i])
            /\ \A j \in 1..Len(output) :
                   \E i \in 1..Len(input) :
                       /\ input[i] = output[j]
                       /\ \A k \in 1..(i - 1) : KeyOf(input[k]) # KeyOf(output[j])
            /\ UniquePoints(output, {}, <<>>) = output

\* three points were deduplicated: the third, whose question equals the
\* first in its first 50 characters up to case and differs after them, was
\* dropped, and the second, which differs in the 50th character, was kept
C12_Witness ==
    /\ gp.pc = "returned"
    /\ Len(gp.all_points) = 3
    /\ gp.all_points[1].question = QLongA
    /\ gp.all_points[2].question = QLongC
    /\ gp.all_points[3].question = QLongB
    /\ gp.result.points = <<gp.all_points[1], gp.all_points[2]>>

\* C13 (SpecFetch): the aggregate of a non-empty list of points lies
\* between the smallest and the largest median_year of the list, both
\* included, whatever the num_forecasters of the points, zero and negative
\* ones too, every weight being at least 1.
C13_AggregateWithinRange ==
    gp.pc = "returned" /\ gp.result.points # <<>> =>
        LET B == gp.result.points
        IN  /\ \A i \in 1..Len(B) : Sqrt(Max(1, B[i].num_forecasters)) >= 1
            /\ \E i \in 1..Len(B) : FLe(B[i].median_year, gp.result.agg)
            /\ \E i \in 1..Len(B) : FLe(gp.result.agg, B[i].median_year)

\* C14 (Spec): one call of a public operation of the engine (fetch_data,
\* generate_prediction, get_detailed_analysis) invokes the fetch function at
\* most once, whatever the TTL and force_refresh, and never again after a
\* failure.
C14_OneFetchPerCall ==
    \A t \in Threads : calls_made[t] <= 1

\* C15 (SpecWorker): in a run of the worker result_ready is emitted at most
\* once, only after generate_prediction has returned a Prediction and after
\* the progress event with value 100; when generate_prediction raises
\* DataFetchError or DataValidationError no result_ready is emitted, the
\* last progress event is (0, error message), and nothing is saved to the
\* store.
ResultsEmitted == { i \in 1..Len(gp.emitted) : gp.emitted[i].signal = "result_ready" }

C15_WorkerSignals ==
    /\ Cardinality(ResultsEmitted) <= 1
    /\ \A i \in ResultsEmitted :
          /\ gp.outcome # None
          /\ gp.outcome.error = "none"
          /\ gp.emitted[i].prediction = gp.outcome.prediction
          /\ \E j \in 1..(i - 1) :
                 gp.emitted[j].signal = "progress_update" /\ gp.emitted[j].value = 100
    /\ gp.pc = "finished" /\ gp.outcome.error \in {"DataFetchError", "DataValidationError"} =>
          /\ ResultsEmitted = {}
          /\ gp.emitted[Len(gp.emitted)] =
                ProgressUpdate(0, <<"Error: ", gp.outcome.error>>)
          /\ Len(gp.ui.db) = gp.runs - 1

\* a run ended in which generate_prediction raised DataValidationError: the
\* dashboard has handled every signal, it shows the error and saved nothing
C15_Witness ==
    /\ gp.pc = "finished"
    /\ gp.outcome.error = "DataValidationError"
    /\ gp.queue = <<>>
    /\ gp.ui.progress = 0
    /\ gp.ui.status_label = <<"Error: ", "DataValidationError">>
    /\ gp.ui.db = <<>>

\* C16 (SpecFetch): the combined fetch over the source adapters never
\* raises: whichever adapters fail, a failing adapter contributes no point,
\* the result keeps adapter order, every point of a non-failing adapter is in
\* the result unless an earlier point of the concatenation has its
\* deduplication key, and when every adapter fails the result is empty.
RECURSIVE Contributed(_)
Contributed(outcomes) ==
    IF outcomes = <<>> THEN <<>>
    ELSE (IF Head(outcomes).kind = "return" THEN Head(outcomes).value ELSE <<>>)
         \o Contributed(Tail(outcomes))

AllAdaptersFailed ==
    \A a \in 1..Len(gp.adapters) : gp.adapters[a].kind = "raise"

C16_FetchSurvivesAdapters ==
    /\ gp.pc # "raised"
    /\ gp.all_points = Contributed(gp.adapters)
    /\ gp.pc = "returned" =>
          /\ Len(gp.adapters) = 3
          /\ IsSubsequence(gp.result.points, Contributed(gp.adapters))
          /\ \A i \in 1..Len(gp.all_points) :
                \/ \E j \in 1..Len(gp.result.points) : gp.result.points[j] = gp.all_points[i]
                \/ \E k \in 1..(i - 1) : KeyOf(gp.all_points[k]) = KeyOf(gp.all_points[i])
          /\ AllAdaptersFailed => gp.result.points = <<>>

\* C16 as first stated: every point of every non-failing adapter is in the
\* result
C16_Original ==
    /\ gp.pc # "raised"
    /\ gp.all_points = Contributed(gp.adapters)
    /\ gp.pc = "returned" =>
          /\ IsSubsequence(gp.result.points, Contributed(gp.adapters))
          /\ \A a \in 1..Len(gp.adapters) :
                gp.adapters[a].kind = "return" =>
                    \A i \in 1..Len(gp.adapters[a].value) :
                        \E j \in 1..Len(gp.result.points) :
                            gp.result.points[j] = gp.adapters[a].value[i]
          /\ AllAdaptersFailed => gp.result.points = <<>>

\* Metaculus failed, Polymarket returned one point and Manifold two, the
\* first with the key of the Polymarket point: the result is the Polymarket
\* point and the second Manifold point
C16_Witness ==
    /\ gp.pc = "returned"
    /\ gp.adapters[1].kind = "raise"
    /\ gp.adapters[2] = [kind |-> "return", value |-> << Point("Polymarket", QAgi, Y2031, 100) >>]
    /\ gp.adapters[3].kind = "return"
    /\ Len(gp.adapters[3].value) = 2
    /\ gp.adapters[3].value[1].question = QAgiLower
    /\ gp.result.points = << gp.adapters[2].value[1], gp.adapters[3].value[2] >>

\* C17 (SpecPipe): the consensus type of a Prediction is decided by the set
\* of distinct sources of the agi bucket after the fallback: SINGLE_SOURCE
\* for no source; for one source PREDICTION_MARKET if it is "Metaculus",
\* else EXPERT_SURVEY; for two or more sources CROWD_EXPERT if "Metaculus"
\* is one of them, else EXPERT_SURVEY.
AgiSources == { gp.classified.agi[i].source : i \in DOMAIN gp.classified.agi }

C17_ConsensusBySources ==
    gp.pc = "returned" =>
        LET type == gp.result.prediction.agi_type
        IN  /\ AgiSources = {} => type = "SINGLE_SOURCE"
            /\ AgiSources = {"Metaculus"} => type = "PREDICTION_MARKET"
            /\ (\E src \in AgiSources : AgiSources = {src}) /\ "Metaculus" \notin AgiSources
                  => type = "EXPERT_SURVEY"
            /\ (\E a, b \in AgiSources : a # b) /\ "Metaculus" \in AgiSources
                  => type = "CROWD_EXPERT"
            /\ (\E a, b \in AgiSources : a # b) /\ "Metaculus" \notin AgiSources
                  => type = "EXPERT_SURVEY"

\* a Prediction was returned whose agi bucket held points of two sources,
\* neither of them Metaculus
C17_Witness ==
    /\ gp.pc = "returned"
    /\ AgiSources = {"Manifold", "Polymarket"}
    /\ gp.result.prediction.agi_type = "EXPERT_SURVEY"

\* C18 (SpecPipe): the takeoff label of a Prediction is decided by the gap
\* asi_year - agi_year after the ordering corrections: RAPID for a gap below
\* 5, MODERATE for a gap of at least 5 and below 15, SLOW for a gap of at
\* least 15; the gap is positive; and whenever the ASI year was forced to
\* agi_year + 5 the label is MODERATE.
AsiForced ==
    LET raw == Aggregates(gp.classified)
    IN  FLe(raw.asi, raw.agi)

C18_TakeoffByGap ==
    gp.pc = "returned" =>
        LET gap == FSub(gp.years.asi, gp.years.agi)
            label == gp.result.prediction.asi_context
        IN  /\ FLt(FromInt(0), gap)
            /\ FLt(gap, FromInt(5)) => label = "RAPID"
            /\ FLe(FromInt(5), gap) /\ FLt(gap, FromInt(15)) => label = "MODERATE"
            /\ FLe(FromInt(15), gap) => label = "SLOW"
            /\ AsiForced => label = "MODERATE"

\* C19 (SpecDate): the year-to-date conversion of a year yr + f, 0 <= f < 1,
\* returns the year yr, the month floor(12 f) + 1 kept within 1..12, and the
\* day 01 (2030.0 gives 2030-01-01, 2030.5 gives 2030-07-01, a year just
\* below 2031 gives 2030-12-01); it returns for every year, and a later
\* year never gives an earlier date.
WholeYears(year) == year[1] \div year[2]

MonthOf(year) ==
    LET twelfths == (12 * (year[1] - WholeYears(year) * year[2])) \div year[2]
    IN  IF twelfths + 1 > 12 THEN 12 ELSE IF twelfths + 1 < 1 THEN 1 ELSE twelfths + 1

C19_YearToDate ==
    gp.pc = "returned" =>
        /\ gp.date = <<WholeYears(gp.year), MonthOf(gp.year), 1>>
        /\ gp.text = Decimal(gp.date[1]) \o <<"-">>
                       \o (IF gp.date[2] < 10 THEN <<"0">> ELSE <<>>) \o Decimal(gp.date[2])
                       \o <<"-", "0", "1">>
        /\ gp.year = <<2030, 1>> =>
              gp.text = <<"2", "0", "3", "0", "-", "0", "1", "-", "0", "1">>
        /\ gp.year = <<4061, 2>> =>
              gp.text = <<"2", "0", "3", "0", "-", "0", "7", "-", "0", "1">>
        /\ gp.year = <<32495, 16>> =>
              gp.text = <<"2", "0", "3", "0", "-", "1", "2", "-", "0", "1">>
        /\ FLe(gp.year, gp.other) => DateLe(gp.date, gp.other_date)

\* 2030.5 and 2030.9375 were converted, to July and to December of 2030
C19_Witness ==
    /\ gp.pc = "returned"
    /\ gp.year = <<4061, 2>>
    /\ gp.other = <<32495, 16>>
    /\ gp.date = <<2030, 7, 1>>
    /\ gp.other_date = <<2030, 12, 1>>

\* C20 (SpecPipe): the fallbacks are applied to the validated points in this
\* order: an empty agi bucket becomes all validated points, then an empty
\* asi bucket becomes the agi bucket (the fallback one if it was replaced),
\* then an empty singularity bucket becomes that agi bucket, never the asi
\* bucket; a bucket that is not empty is never replaced, and an empty bucket
\* raises no error.
C20_FallbackOrder ==
    /\ gp.pc = "aggregate" =>
          LET agi == InBucket(gp.points, "agi")
              asi == InBucket(gp.points, "asi")
              sing == InBucket(gp.points, "singularity")
              after == gp.classified
          IN  /\ after.agi = IF agi = <<>> THEN gp.points ELSE agi
              /\ after.asi = IF asi = <<>> THEN after.agi ELSE asi
              /\ after.singularity = IF sing = <<>> THEN after.agi ELSE sing
              /\ gp.result = None
    /\ gp.pc = "raised" => gp.classified = None

\* an AGI point and an ASI point were classified: the empty singularity
\* bucket became the agi bucket, which differs from the asi bucket
C20_Witness ==
    /\ gp.pc = "aggregate"
    /\ Len(gp.points) = 2
    /\ gp.points[1].question = QAgi
    /\ gp.points[2].question = QAsi
    /\ gp.classified.agi = <<gp.points[1]>>
    /\ gp.classified.asi = <<gp.points[2]>>
    /\ gp.classified.singularity = <<gp.points[1]>>

\* C21 (SpecWorker): every press of the refresh button that starts a run is
\* eventually followed by the button being enabled again, whether the run
\* ends with a result or with an error.  Once the worker has finished and
\* the dashboard has handled every queued signal nothing more happens
\* without a press, so by then the button must be enabled.
C21_ButtonEnabledAgain ==
    gp.pc = "finished" /\ gp.queue = <<>> => gp.ui.refresh_btn

\* C22 (Spec): in the result of one get_detailed_analysis call the prediction
\* is the one computed from the point sequence that raw_forecasts,
\* total_data_points and the per-milestone metrics were computed from, for
\* every TTL, every force_refresh and any clear_cache or expiry in between.
C22_OneFetchedSequence ==
    \A t \in Threads :
        (/\ pc[t] = "done"
         /\ op[t] = "get_detailed_analysis"
         /\ result[t].error = "none") =>
            /\ result[t].total_data_points = Len(result[t].raw_forecasts)
            /\ result[t].agi_metrics =
                   CalculateConfidenceMetrics(Classify(result[t].raw_forecasts).agi)
            /\ result[t].prediction =
                   PredictionFrom(result[t].raw_forecasts, min_data_points).prediction

\* C23 (Spec): with TTL > 0 the cache stores the fetched list as it came,
\* before validation: a generate_prediction that ends with
\* DataValidationError leaves that list in the cache; a non-forced
\* generate_prediction that then finds it there, not older than the TTL,
\* ends with DataValidationError again without invoking the fetch function;
\* and a non-forced call invokes the fetch function only when the cache is
\* empty (never filled, or cleared) or its entry has expired.
Rejected(data) == ValidateData(data, min_data_points).error = "DataValidationError"

FailsValidation(t) ==
    /\ op[t] = "generate_prediction"
    /\ pc[t] \in {"check", "fetched"}
    /\ pc'[t] = "done"
    /\ result'[t].error = "DataValidationError"

C23_InvalidDataStaysCached ==
    [][\A t \in Threads :
          /\ (Finishes(t) /\ cache_ttl > 0 /\ ~FetchFailed(fetched[t])) =>
                cache' = CacheEntry(fetched[t].value, now)
          /\ (FailsValidation(t) /\ cache_ttl > 0) =>
                /\ cache' # NoCache
                /\ cache'.data = raw_points'[t]
                /\ Rejected(cache'.data)
          /\ (Checks(t) /\ op[t] = "generate_prediction" /\ ~force_refresh[t]
                /\ cache_ttl > 0 /\ cache # NoCache
                /\ now - cache.timestamp <= cache_ttl /\ Rejected(cache.data)) =>
                /\ FailsValidation(t)
                /\ calls_made'[t] = calls_made[t]
                /\ cache' = cache
          /\ (Checks(t) /\ Invokes(t) /\ cache_ttl > 0 /\ ~force_refresh[t]) =>
                \/ cache = NoCache
                \/ now - cache.timestamp > cache_ttl]_vars

\* a non-forced generate_prediction ended with DataValidationError without an
\* invocation of the fetch function: it found in the cache a list that an
\* earlier call stored and that has no valid point
C23_Witness ==
    \E t \in Threads :
        /\ pc[t] = "done"
        /\ op[t] = "generate_prediction"
        /\ ~force_refresh[t]
        /\ calls_made[t] = 0
        /\ shares[t] = "none"
        /\ min_data_points = 1
        /\ cache # NoCache
        /\ cache.data = DataInvalid
        /\ raw_points[t] = DataInvalid
        /\ result[t] = [error |-> "DataValidationError", got |-> 0, need |-> 1]

\* C24 (SpecLock): the cache lock is held exactly by a caller inside the
\* with block of fetch_data or clear_cache and is free after every exit,
\* the two DataFetchError exits included; every fetch function invocation
\* coming back, a caller that waits for the lock gets it, and after a
\* failed fetch_data the next caller can take the lock.
InsideBlock(t) == pc[t] \in {"check", "fetching", "fetched", "clear"}

LockHeldInside ==
    /\ cache_lock \in {0} \cup Threads
    /\ \A t \in Threads : InsideBlock(t) <=> cache_lock = t

====
